---- MODULE Spec2Model ----
(***************************************************************************)
(* A model of the aitool-json SDK (sdk/aitool.py) in three                *)
(* specifications: Spec, the execution engine of class Tool (execute,      *)
(* _load_function, _handle_error, _retry_with_backoff); SpecParse, the     *)
(* constructor of Tool applied to one document; SpecRegistry, class        *)
(* ToolRegistry (register_tool, from_directory, load_from_registry_file,   *)
(* get_tool, find_tools, get_categories).                                  *)
(*                                                                         *)
(* A Tool is built once (Init) from its rule list and endpoint type; the   *)
(* caller then makes top-level execute() calls one after the other.  One   *)
(* call is a sequence of steps; the callable and the importer are the      *)
(* environment and answer nondeterministically at every step that asks     *)
(* them.  Optional values are sequences: <<>> is None, <<v>> is v.  Text   *)
(* is a sequence of characters, so that Python's `in` is a real substring  *)
(* test.  Delays are kept in milliseconds.                                 *)
(***************************************************************************)
EXTENDS Integers, Sequences, FiniteSets, TLC

VARIABLES
    error_handlers,   \* Tool.error_handlers: the ordered rule list
    endpoint_type,    \* Tool.execution['endpoint']['type']
    protocol,         \* Tool.execution['protocol']
    cached_function,  \* Tool._cached_function
    pc,               \* position of the running top-level call
    frame,            \* which execute() is running: "top", "retry", "wait"
    opts,             \* keyword options of the top-level execute()
    params_ok,        \* the schema validator's verdict on params
    error,            \* the failure handed to _handle_error
    handler,          \* index of the rule _handle_error selected, 0: none
    attempt,          \* loop variable of _retry_with_backoff
    outcome,          \* how the top-level call ended
    func_result,      \* what the callable returned, if it returned
    cache_at_call,    \* _cached_function when the top-level call began
    trace,            \* events of the running top-level call, in order
    sleeps,           \* durations handed to time.sleep, in ms, in order
    doc,              \* the document handed to Tool(spec)
    parsed,           \* how Tool(spec) ended: the Tool built or the exception
    tools,            \* ToolRegistry.tools, in insertion order
    categories,       \* ToolRegistry.categories: category -> list of ids
    reg_log,          \* the tools handed to register_tool, in call order
    last_load         \* the input of the last load and its part of reg_log

engineVars ==
    << error_handlers, endpoint_type, protocol, cached_function, pc, frame, opts,
       params_ok, error, handler, attempt, outcome, func_result,
       cache_at_call, trace, sleeps >>
libraryVars == << doc, parsed, tools, categories, reg_log, last_load >>
vars == << engineVars, libraryVars >>

----------------------------------------------------------------------------
(* Bounds of the model *)

\* largest max_retries a rule is configured with
MaxRetriesCfg == 4
\* largest wait_seconds a rule is configured with
MaxWaitCfg == 1
\* most tools, files and index entries one registry is handed
MaxDocuments == 3

----------------------------------------------------------------------------
(* Values *)

None == <<>>
Some(v) == <<v>>

NoFunc == "None"
NoResult == "None"
NoError == [kind |-> "", msg |-> <<>>, seq |-> 0]
NoOutcome == [kind |-> "none", val |-> NoResult, err |-> NoError]

RecoveryStrategy ==
    { "retry", "retry_with_backoff", "wait_and_retry", "alternate_tool",
      "fail", "prompt_user" }

\* default of max_retries
DefaultMaxRetries == 3
\* default of backoff_ms
DefaultBackoff == <<1000, 2000, 4000>>
\* default of wait_seconds
DefaultWaitSeconds == 1

\* what a rule matches on: (error_type, error_code)
Matchers ==
    { [error_type |-> <<"z">>, error_code |-> Some("TimeoutError")],
      [error_type |-> <<"t">>, error_code |-> None] }

MaxRetriesChoices == {None} \cup { Some(n) : n \in (-1)..MaxRetriesCfg }
BackoffChoices == { None, Some(<<100, 200>>) }
WaitChoices == {None} \cup { Some(n) : n \in 0..MaxWaitCfg }

\* A rule as ErrorRecovery.from_dict builds it; the fields a strategy never
\* reads are left unset.
ErrorRecovery(m, s, mr, bo, ws) ==
    [ error_type |-> m.error_type, error_code |-> m.error_code,
      strategy |-> s, max_retries |-> mr, backoff_ms |-> bo,
      wait_seconds |-> ws ]

Rules ==
    { ErrorRecovery(m, "retry_with_backoff", mr, bo, None) :
        m \in Matchers, mr \in MaxRetriesChoices, bo \in BackoffChoices }
    \cup
    { ErrorRecovery(m, "wait_and_retry", None, None, ws) :
        m \in Matchers, ws \in WaitChoices }
    \cup
    { ErrorRecovery(m, s, None, None, None) :
        m \in Matchers,
        s \in RecoveryStrategy \ {"retry_with_backoff", "wait_and_retry"} }

\* The rule lists of the modelled tools: up to two rules, one to select and
\* one to pass over or to shadow.
RuleLists ==
    { <<>> } \cup { <<r>> : r \in Rules } \cup { <<r1, r2>> : r1 \in Rules, r2 \in Rules }

\* The protocols a tool document declares; the rule lists of the tools that
\* declare another protocol than function_call hold at most one rule.
Protocols == { "function_call", "http" }
ShortRuleLists == { <<>> } \cup { <<r>> : r \in Rules }

\* the failures the callable raises: type name and message
CallableErrors ==
    { [kind |-> "TimeoutError", msg |-> <<"a", "t">>],
      [kind |-> "ValueError", msg |-> <<"o">>] }

\* the values the callable returns
CallableResults == { "r1", "r2" }

\* the success_schema: the results the schema validator accepts
OutputOK(r) == r = "r1"

Min(a, b) == IF a < b THEN a ELSE b

RECURSIVE Count(_, _)
Count(s, S) ==
    IF s = <<>> THEN 0
    ELSE (IF Head(s) \in S THEN 1 ELSE 0) + Count(Tail(s), S)

----------------------------------------------------------------------------
(* Pure helpers of the engine *)

\* Python's `s in t` on strings
IsSubstring(s, t) ==
    \E i \in 0..(Len(t) - Len(s)) : SubSeq(t, i + 1, i + Len(s)) = s

\* Python's `opt or default` on an optional number: None and 0 are falsy
OrDefault(opt, default) ==
    IF opt = None \/ opt[1] = 0 THEN default ELSE opt[1]

\* Python's `opt or default` on an optional list: None and [] are falsy
OrDefaultList(opt, default) ==
    IF opt = None \/ opt[1] = <<>> THEN default ELSE opt[1]

\* _handle_error, line 324: the test of one rule against the failure
Matches(h, e) ==
    h.error_code = Some(e.kind) \/ IsSubstring(h.error_type, e.msg)

FindHandler_AnyRule(handlers, e) == IF Len(handlers) > 0 THEN 1 ELSE 0

FindHandler_LastMatch(handlers, e) ==
    LET idx == { i \in 1..Len(handlers) : Matches(handlers[i], e) }
    IN  IF idx = {} THEN 0 ELSE CHOOSE i \in idx : \A j \in idx : i >= j

\* _handle_error, lines 322-326: index of the first matching rule, 0 if none
FindHandler(handlers, e) ==
    LET idx == { i \in 1..Len(handlers) : Matches(handlers[i], e) }
    IN  IF idx = {} THEN 0 ELSE CHOOSE i \in idx : \A j \in idx : i <= j

\* _retry_with_backoff, line 355
MaxRetriesOf(h) == OrDefault(h.max_retries, DefaultMaxRetries)

\* _retry_with_backoff, line 356
BackoffOf(h) == OrDefaultList(h.backoff_ms, DefaultBackoff)

SleepBefore_Wraps(h, a) ==
    IF a > 0 THEN <<BackoffOf(h)[((a - 1) % Len(BackoffOf(h))) + 1]>> ELSE <<>>

SleepBefore_NoFirstSkip(h, a) == <<BackoffOf(h)[Min(a, Len(BackoffOf(h)) - 1) + 1]>>

\* _retry_with_backoff, lines 360-363: the delays slept before attempt a
\* (a counts from 0)
SleepBefore(h, a) ==
    IF a > 0
    THEN <<BackoffOf(h)[Min(a - 1, Len(BackoffOf(h)) - 1) + 1]>>
    ELSE <<>>

\* _handle_error, line 340: the delay of wait_and_retry, in ms
WaitMs(h) == OrDefault(h.wait_seconds, DefaultWaitSeconds) * 1000

ValidateInputRaises_Never(ok) == FALSE

\* validate_input, lines 209-213: raises ValidationError when the validator
\* rejects params
ValidateInputRaises(ok) == ~ok

ValidateOutputRaises_OnInvalid(r) == ~OutputOK(r)

\* validate_output, lines 228-236: a rejected result is logged and False is
\* returned; nothing is raised
ValidateOutputRaises(r) == FALSE

InTry_All(step) == TRUE

\* execute, lines 288-303: the steps inside the try block
InTry(step) == step = "invoke"

IsCached_Never(f) == FALSE

\* _load_function, line 240: the cached handle is returned when there is one
IsCached(f) == f # NoFunc

UsesRetryLoop_AlsoRetry(s) == s \in {"retry", "retry_with_backoff"}

\* _handle_error, line 334: the strategy that runs _retry_with_backoff
UsesRetryLoop(s) == s = "retry_with_backoff"

ExhaustedError_Original(e, original) == original

\* _retry_with_backoff, line 369: what the last failed attempt raises
ExhaustedError(e, original) == e

RetryOpts_HandleErrors ==
    [validate_input |-> TRUE, validate_output |-> TRUE, handle_errors |-> TRUE]

\* options of the execute() calls made by the recovery strategies
\* (lines 341 and 365: only handle_errors is passed)
RetryOpts ==
    [validate_input |-> TRUE, validate_output |-> TRUE, handle_errors |-> FALSE]

CurOpts_HandlesErrors ==
    IF frame = "top" THEN [opts EXCEPT !.handle_errors = TRUE] ELSE RetryOpts

\* options of the execute() that is running
CurOpts == IF frame = "top" THEN opts ELSE RetryOpts

\* number of execute() entries so far in this top-level call
Passes == Count(trace, {"enter"})

\* number of invocations of the callable so far in this top-level call
Invocations == Count(trace, {"invoke_ok", "invoke_fail"})

ValidationErr == [kind |-> "ValidationError", msg |-> <<"v">>, seq |-> Passes]
LoadErr == [kind |-> "ToolExecutionError", msg |-> <<"n", "o", "t">>, seq |-> Passes]
ProtocolErr == [kind |-> "NotImplementedError", msg |-> <<"n", "o", "t">>, seq |-> Passes]
OutputErr == [kind |-> "ValidationError", msg |-> <<"u">>, seq |-> Passes]

----------------------------------------------------------------------------
(* Control transfer *)

Goto(l) == pc' = l /\ UNCHANGED << frame, attempt, outcome >>

\* a value returned by the running execute(): every caller on the stack
\* returns it at once (lines 301, 341, 365)
Return(v) ==
    /\ pc' = "done"
    /\ outcome' = [kind |-> "return", val |-> v, err |-> NoError]
    /\ UNCHANGED << frame, attempt >>

\* an exception leaving the running execute()
Raise(e) ==
    IF frame = "retry" /\ attempt # MaxRetriesOf(error_handlers[handler]) - 1
    THEN \* lines 366-370: not the last attempt, continue
         /\ pc' = "retry"
         /\ attempt' = attempt + 1
         /\ UNCHANGED << frame, outcome >>
    ELSE /\ pc' = "done"
         /\ outcome' = [kind |-> "raise", val |-> NoResult,
                        err |-> IF frame = "retry" THEN ExhaustedError(e, error) ELSE e]
         /\ UNCHANGED << frame, attempt >>

\* an exception raised at `step` of execute(): caught by line 299 when the
\* step is inside the try block and handle_errors is set
Throw(step, e) ==
    IF InTry(step) /\ CurOpts.handle_errors
    THEN /\ error' = e
         /\ Goto("handle")
    ELSE /\ Raise(e)
         /\ UNCHANGED error

----------------------------------------------------------------------------
(* Tool documents and their parsing: Tool.__init__, Tool.from_file *)

\* the top-level sections Tool.__init__ reads with spec[...], in the order
\* it reads them
RequiredSections_GuidanceOptional == << "manifest", "capabilities", "execution" >>
RequiredSections == << "manifest", "capabilities", "execution", "usage_guidance" >>

\* the top-level sections a document may hold
DocSections ==
    { "manifest", "capabilities", "execution", "usage_guidance", "error_handling" }

\* an entry of usage_guidance['when_to_use']: the phrase "A b", one example "cd"
Trigger1 == [ trigger |-> << "A", " ", "b" >>, examples |-> << << "c", "d" >> >> ]

\* entries of error_handling as the document holds them; the second names a
\* strategy that RecoveryStrategy does not have
GoodRawRule ==
    ErrorRecovery([error_type |-> << "t" >>, error_code |-> None], "fail",
                  None, None, None)
BogusRawRule ==
    ErrorRecovery([error_type |-> << "t" >>, error_code |-> None], "escalate",
                  None, None, None)

ToolIds == { "a", "b", "c" }
Categories == { "x", "y" }
\* category, tags and triggers of the tools of the model
ToolKinds ==
    { [category |-> "x", tags |-> << >>, when_to_use |-> << >>],
      [category |-> "x", tags |-> << "p" >>, when_to_use |-> << Trigger1 >>],
      [category |-> "x", tags |-> << "p", "q" >>, when_to_use |-> << >>],
      [category |-> "y", tags |-> << "p" >>, when_to_use |-> << Trigger1 >>] }

\* what the registry reads of a Tool
MakeTool(id, k, rules) ==
    [ id |-> id, category |-> k.category, tags |-> k.tags,
      when_to_use |-> k.when_to_use, error_handlers |-> rules ]

ToolUniverse == { MakeTool(id, k, << >>) : id \in ToolIds, k \in ToolKinds }

NoTool == MakeTool("", [category |-> "", tags |-> << >>, when_to_use |-> << >>], << >>)
NoDoc ==
    [ keys |-> {}, id |-> "", category |-> "", tags |-> << >>,
      when_to_use |-> << >>, error_handling |-> << >> ]
NoException == [kind |-> "", key |-> ""]
NotParsed == [status |-> "none", tool |-> NoTool, err |-> NoException]

\* a document: the sections present, and what its sections hold (the
\* manifest always holds id, name, version and category)
MakeDoc(keys, t, raw) ==
    [ keys |-> keys, id |-> t.id, category |-> t.category, tags |-> t.tags,
      when_to_use |-> t.when_to_use, error_handling |-> raw ]

\* the documents handed to the constructor
Docs ==
    { MakeDoc(keys, t, raw) :
        keys \in SUBSET DocSections,
        t \in { u \in ToolUniverse : u.id = "a" },
        raw \in { << >>, << GoodRawRule >>, << GoodRawRule, BogusRawRule >> } }

\* the first required section the document lacks, 0: none
FirstMissing(keys) ==
    LET lacking == { i \in 1..Len(RequiredSections) : RequiredSections[i] \notin keys }
    IN  IF lacking = {} THEN 0
        ELSE CHOOSE i \in lacking : \A j \in lacking : i <= j

\* spec.get('error_handling', []), line 150
RawRulesOf(d) == IF "error_handling" \in d.keys THEN d.error_handling ELSE << >>

\* Tool.__init__: the sections are read in order, then every entry of
\* error_handling goes through ErrorRecovery.from_dict, where
\* RecoveryStrategy(...) raises ValueError on an unknown strategy
ParseTool(d) ==
    IF FirstMissing(d.keys) # 0
    THEN [ status |-> "raise", tool |-> NoTool,
           err |-> [kind |-> "KeyError", key |-> RequiredSections[FirstMissing(d.keys)]] ]
    ELSE IF \E i \in 1..Len(RawRulesOf(d)) : RawRulesOf(d)[i].strategy \notin RecoveryStrategy
    THEN [ status |-> "raise", tool |-> NoTool,
           err |-> [kind |-> "ValueError", key |-> ""] ]
    ELSE [ status |-> "ok",
           tool |-> [ id |-> d.id, category |-> d.category, tags |-> d.tags,
                      when_to_use |-> d.when_to_use,
                      error_handlers |-> RawRulesOf(d) ],
           err |-> NoException ]

\* Tool.from_file: open() and json.load() raise on a file that cannot be read
FromFile(f) ==
    IF ~f.readable
    THEN [ status |-> "raise", tool |-> NoTool,
           err |-> [kind |-> "FileNotFoundError", key |-> ""] ]
    ELSE ParseTool(f.doc)

----------------------------------------------------------------------------
(* The registry: ToolRegistry *)

\* str.lower() on the characters of the model
LowerChar(c) ==
    IF c = "A" THEN "a" ELSE IF c = "C" THEN "c" ELSE IF c = "D" THEN "d" ELSE c
Lower(s) == [ i \in 1..Len(s) |-> LowerChar(s[i]) ]

\* str.split(): the maximal runs of non-blank characters
RECURSIVE Split(_)
Split(s) ==
    IF s = << >> THEN << >>
    ELSE IF Head(s) = " " THEN Split(Tail(s))
    ELSE LET n == CHOOSE i \in 1..Len(s) :
                      /\ \A j \in 1..i : s[j] # " "
                      /\ i = Len(s) \/ s[i + 1] = " "
         IN  << SubSeq(s, 1, n) >> \o Split(SubSeq(s, n + 1, Len(s)))

\* Tool.matches_trigger
MatchesTrigger(t, user_query) ==
    \E i \in 1..Len(t.when_to_use) :
        LET trigger  == Lower(t.when_to_use[i].trigger)
            examples == t.when_to_use[i].examples
        IN  \/ \E k \in 1..Len(Split(trigger)) :
                   IsSubstring(Split(trigger)[k], Lower(user_query))
            \/ \E k \in 1..Len(examples) :
                   IsSubstring(Lower(examples[k]), Lower(user_query))

\* self.tools[tool.manifest.id] = tool on a dict kept in insertion order
DictPut_KeepFirst(d, t) ==
    IF \E i \in 1..Len(d) : d[i].id = t.id THEN d ELSE Append(d, t)
DictPut_ByCategory(d, t) ==
    IF \E i \in 1..Len(d) : d[i].category = t.category
    THEN [ i \in 1..Len(d) |-> IF d[i].category = t.category THEN t ELSE d[i] ]
    ELSE Append(d, t)
DictPut(d, t) ==
    IF \E i \in 1..Len(d) : d[i].id = t.id
    THEN [ i \in 1..Len(d) |-> IF d[i].id = t.id THEN t ELSE d[i] ]
    ELSE Append(d, t)

BucketAppend_Dedup(cats, c, id) ==
    [ k \in (DOMAIN cats) \cup {c} |->
        IF k # c THEN cats[k]
        ELSE IF c \notin DOMAIN cats THEN << id >>
        ELSE IF \E i \in 1..Len(cats[c]) : cats[c][i] = id THEN cats[c]
        ELSE Append(cats[c], id) ]

\* lines 470-473: the bucket is created when absent, the id is appended
BucketAppend(cats, c, id) ==
    [ k \in (DOMAIN cats) \cup {c} |->
        IF k # c THEN cats[k]
        ELSE IF c \in DOMAIN cats THEN Append(cats[c], id) ELSE << id >> ]

EmptyRegistry == [tools |-> << >>, categories |-> << >>, log |-> << >>]

\* register_tool on a registry value; log is the history of its calls
Register(reg, t) ==
    [ tools |-> DictPut(reg.tools, t),
      categories |-> BucketAppend(reg.categories, t.category, t.id),
      log |-> Append(reg.log, t) ]

\* the body of both loading loops: try: from_file, register_tool;
\* except Exception: log
TryLoad(reg, f) ==
    IF FromFile(f).status = "ok" THEN Register(reg, FromFile(f).tool) ELSE reg

\* the scanning loop of from_directory, lines 437-443
RECURSIVE ScanFiles_AbortOnFailure(_, _)
ScanFiles_AbortOnFailure(reg, files) ==
    IF files = << >> THEN reg
    ELSE IF FromFile(Head(files)).status # "ok" THEN reg
    ELSE ScanFiles_AbortOnFailure(TryLoad(reg, Head(files)), Tail(files))
RECURSIVE ScanFiles(_, _)
ScanFiles(reg, files) ==
    IF files = << >> THEN reg
    ELSE ScanFiles(TryLoad(reg, Head(files)), Tail(files))

\* the loop of load_from_registry_file, lines 454-461
RECURSIVE LoadEntries(_, _)
LoadEntries(reg, entries) ==
    IF entries = << >> THEN reg
    ELSE LoadEntries(IF Head(entries).status = "active"
                     THEN TryLoad(reg, Head(entries).file) ELSE reg,
                     Tail(entries))

\* load_from_registry_file: the loop, then line 463 replaces the buckets
\* by the index's 'categories'
LoadRegistryFile(reg, entries, cats) ==
    [ LoadEntries(reg, entries) EXCEPT !.categories = cats ]

\* Python's truth value of an optional string, and of an optional list or
\* text: None and the empty value are falsy
TruthyStr(opt) == opt # None /\ opt[1] # ""
TruthySeq(opt) == opt # None /\ opt[1] # << >>

\* all(tag in tool.manifest.tags for tag in tags), line 511
HasAllTags(t, tags) ==
    \A i \in 1..Len(tags) : \E j \in 1..Len(t.tags) : t.tags[j] = tags[i]

\* the files and the index entries a directory holds
FileTools == { t \in ToolUniverse : t.id \in {"a", "b"} /\ t.tags = << >> }
FullDoc(t) == MakeDoc(DocSections \ {"error_handling"}, t, << >>)
BrokenDoc ==
    MakeDoc({"manifest", "capabilities", "usage_guidance"},
            MakeTool("c", [category |-> "x", tags |-> << >>, when_to_use |-> << >>], << >>),
            << >>)
Files ==
    { [readable |-> TRUE, doc |-> FullDoc(t)] : t \in FileTools }
    \cup { [readable |-> TRUE, doc |-> BrokenDoc],
           [readable |-> FALSE, doc |-> NoDoc] }
IndexEntries == { [status |-> s, file |-> f] : s \in {"active", "deprecated"}, f \in Files }
\* registry_data.get('categories', {}): absent or empty, or a list per name
IndexCategories == { << >>, [ c \in {"x"} |-> << "a" >> ] }

SeqsUpTo(S, n) == UNION { [1..k -> S] : k \in 0..n }

NoLoad == [kind |-> "none", files |-> << >>, entries |-> << >>, from |-> 0, to |-> 0]

\* a registry as ToolRegistry() leaves it, before any load
RegistryEmpty ==
    /\ tools = << >>
    /\ categories = << >>
    /\ reg_log = << >>
    /\ last_load = NoLoad

----------------------------------------------------------------------------
(* The tool and its calls *)

Init ==
    /\ protocol \in Protocols
    /\ error_handlers \in (IF protocol = "function_call" THEN RuleLists ELSE ShortRuleLists)
    /\ endpoint_type \in {"python_function", "http"}
    /\ cached_function = NoFunc
    /\ pc = "idle"
    /\ frame = "top"
    /\ opts = [validate_input |-> TRUE, validate_output |-> TRUE, handle_errors |-> TRUE]
    /\ params_ok = TRUE
    /\ error = NoError
    /\ handler = 0
    /\ attempt = 0
    /\ outcome = NoOutcome
    /\ func_result = NoResult
    /\ cache_at_call = NoFunc
    /\ trace = <<>>
    /\ sleeps = <<>>
    /\ doc = NoDoc
    /\ parsed = NotParsed
    /\ RegistryEmpty

\* A caller calls tool.execute(params, validate_input, validate_output,
\* handle_errors), lines 258-264
Execute ==
    /\ pc \in {"idle", "done"}
    /\ \E ok \in BOOLEAN, vi \in BOOLEAN, vo \in BOOLEAN, he \in BOOLEAN :
         /\ params_ok' = ok
         /\ opts' = [validate_input |-> vi, validate_output |-> vo, handle_errors |-> he]
    /\ pc' = "validate"
    /\ frame' = "top"
    /\ error' = NoError
    /\ handler' = 0
    /\ attempt' = 0
    /\ outcome' = NoOutcome
    /\ func_result' = NoResult
    /\ cache_at_call' = cached_function
    /\ trace' = <<"enter">>
    /\ sleeps' = <<>>
    /\ UNCHANGED libraryVars
    /\ UNCHANGED << error_handlers, endpoint_type, protocol, cached_function >>

\* execute, lines 281-283
ValidateInput ==
    /\ pc = "validate"
    /\ IF CurOpts.validate_input
       THEN IF ValidateInputRaises(params_ok)
            THEN /\ trace' = Append(trace, "validate_fail")
                 /\ Throw("validate", ValidationErr)
            ELSE /\ trace' = Append(trace, "validate_ok")
                 /\ Goto("load")
                 /\ UNCHANGED error
       ELSE /\ Goto("load")
            /\ UNCHANGED << trace, error >>
    /\ UNCHANGED libraryVars
    /\ UNCHANGED << error_handlers, endpoint_type, protocol, cached_function, opts,
                    params_ok, handler, func_result, cache_at_call, sleeps >>

\* execute, line 286, and _load_function, lines 238-256
LoadFunction ==
    /\ pc = "load"
    /\ IF IsCached(cached_function)
       THEN /\ trace' = Append(trace, "load")
            /\ Goto("invoke")
            /\ UNCHANGED << cached_function, error >>
       ELSE IF endpoint_type = "python_function"
            THEN \E found \in BOOLEAN :
                   IF found
                   THEN /\ cached_function' = "func"
                        /\ trace' = trace \o <<"load", "resolve_ok">>
                        /\ Goto("invoke")
                        /\ UNCHANGED error
                   ELSE /\ trace' = trace \o <<"load", "resolve_fail">>
                        /\ Throw("load", LoadErr)
                        /\ UNCHANGED cached_function
            ELSE /\ trace' = trace \o <<"load", "unsupported">>
                 /\ Throw("load", ProtocolErr)
                 /\ UNCHANGED cached_function
    /\ UNCHANGED libraryVars
    /\ UNCHANGED << error_handlers, endpoint_type, protocol, opts, params_ok, handler,
                    func_result, cache_at_call, sleeps >>

\* execute, lines 288-303: the callable returns r
InvokeReturns ==
    /\ pc = "invoke"
    /\ \E r \in CallableResults :
         /\ func_result' = r
         /\ IF CurOpts.validate_output
            THEN /\ trace' = trace \o <<"invoke_ok",
                                        IF OutputOK(r) THEN "output_ok" ELSE "output_warn">>
                 /\ IF ValidateOutputRaises(r)
                    THEN Throw("invoke", OutputErr)
                    ELSE Return(r) /\ UNCHANGED error
            ELSE /\ trace' = Append(trace, "invoke_ok")
                 /\ Return(r)
                 /\ UNCHANGED error
    /\ UNCHANGED libraryVars
    /\ UNCHANGED << error_handlers, endpoint_type, protocol, cached_function, opts,
                    params_ok, handler, cache_at_call, sleeps >>

\* execute, lines 288-303: the callable raises
InvokeRaises ==
    /\ pc = "invoke"
    /\ \E ce \in CallableErrors :
         /\ trace' = Append(trace, "invoke_fail")
         /\ Throw("invoke", [kind |-> ce.kind, msg |-> ce.msg, seq |-> Passes])
    /\ UNCHANGED libraryVars
    /\ UNCHANGED << error_handlers, endpoint_type, protocol, cached_function, opts,
                    params_ok, handler, func_result, cache_at_call, sleeps >>

\* _handle_error, lines 305-351
HandleError ==
    /\ pc = "handle"
    /\ LET h == FindHandler(error_handlers, error)
           strategy == IF h = 0 THEN "none" ELSE error_handlers[h].strategy
       IN  /\ handler' = h
           /\ IF UsesRetryLoop(strategy)
              THEN /\ pc' = "retry"
                   /\ attempt' = 0
                   /\ trace' = Append(trace, "scan")
                   /\ UNCHANGED << frame, outcome, sleeps >>
              ELSE IF strategy = "wait_and_retry"
              THEN /\ sleeps' = Append(sleeps, WaitMs(error_handlers[h]))
                   /\ trace' = trace \o <<"scan", "sleep", "enter">>
                   /\ frame' = "wait"
                   /\ pc' = "validate"
                   /\ UNCHANGED << attempt, outcome >>
              ELSE /\ trace' = Append(trace, "scan")
                   /\ Raise(error)
                   /\ UNCHANGED sleeps
    /\ UNCHANGED libraryVars
    /\ UNCHANGED << error_handlers, endpoint_type, protocol, cached_function, opts,
                    params_ok, error, func_result, cache_at_call >>

\* _retry_with_backoff, lines 358-365: one turn of the for loop up to the
\* call of execute; a range that is exhausted ends the function, which then
\* returns None
RetryAttempt ==
    /\ pc = "retry"
    /\ LET h == error_handlers[handler]
       IN  IF attempt < MaxRetriesOf(h)
           THEN /\ sleeps' = sleeps \o SleepBefore(h, attempt)
                /\ trace' = trace \o [i \in 1..Len(SleepBefore(h, attempt)) |-> "sleep"]
                                  \o <<"attempt", "enter">>
                /\ frame' = "retry"
                /\ pc' = "validate"
                /\ UNCHANGED << attempt, outcome >>
           ELSE /\ Return(NoResult)
                /\ UNCHANGED << sleeps, trace >>
    /\ UNCHANGED libraryVars
    /\ UNCHANGED << error_handlers, endpoint_type, protocol, cached_function, opts,
                    params_ok, error, handler, func_result, cache_at_call >>

Next ==
    \/ Execute
    \/ ValidateInput
    \/ LoadFunction
    \/ InvokeReturns
    \/ InvokeRaises
    \/ HandleError
    \/ RetryAttempt

Spec == Init /\ [][Next]_vars

----------------------------------------------------------------------------
(* Parsing one document *)

\* no call of execute() has been made on the tool of the engine
EngineIdle ==
    /\ protocol = "function_call"
    /\ error_handlers = << >>
    /\ endpoint_type = "python_function"
    /\ cached_function = NoFunc
    /\ pc = "idle"
    /\ frame = "top"
    /\ opts = [validate_input |-> TRUE, validate_output |-> TRUE, handle_errors |-> TRUE]
    /\ params_ok = TRUE
    /\ error = NoError
    /\ handler = 0
    /\ attempt = 0
    /\ outcome = NoOutcome
    /\ func_result = NoResult
    /\ cache_at_call = NoFunc
    /\ trace = << >>
    /\ sleeps = << >>

InitParse ==
    /\ doc \in Docs
    /\ parsed = NotParsed
    /\ RegistryEmpty
    /\ EngineIdle

\* Tool(spec), lines 142-152
ToolInit ==
    /\ parsed = NotParsed
    /\ parsed' = ParseTool(doc)
    /\ UNCHANGED << doc, tools, categories, reg_log, last_load >>
    /\ UNCHANGED engineVars

NextParse ==
    \/ ToolInit

SpecParse == InitParse /\ [][NextParse]_vars

----------------------------------------------------------------------------
(* The registry and its loading *)

\* the registry under observation as a value
Registry == [tools |-> tools, categories |-> categories, log |-> reg_log]

SetRegistry(reg) ==
    /\ tools' = reg.tools
    /\ categories' = reg.categories
    /\ reg_log' = reg.log

\* ToolRegistry(), lines 413-415
InitRegistry ==
    /\ RegistryEmpty
    /\ doc = NoDoc
    /\ parsed = NotParsed
    /\ EngineIdle

\* what the registry was handed: the tools registered and the files and
\* entries its load passed over
Handled ==
    Len(reg_log) + Len(last_load.files) + Len(last_load.entries)
        - (last_load.to - last_load.from)

\* registry.register_tool(tool), lines 465-473
RegisterTool ==
    /\ Handled < MaxDocuments
    /\ \E t \in ToolUniverse : SetRegistry(Register(Registry, t))
    /\ UNCHANGED << doc, parsed, last_load >>
    /\ UNCHANGED engineVars

\* ToolRegistry.from_directory(directory), lines 417-445: a new registry,
\* filled from registry.json when the directory holds one and from the
\* *.aitool.json files otherwise
FromDirectory ==
    /\ RegistryEmpty
    /\ \E has_index \in BOOLEAN :
         IF has_index
         THEN \E entries \in SeqsUpTo(IndexEntries, MaxDocuments),
                 cats \in IndexCategories :
                 LET reg == LoadRegistryFile(EmptyRegistry, entries, cats)
                 IN  /\ SetRegistry(reg)
                     /\ last_load' = [ kind |-> "index", files |-> << >>,
                                       entries |-> entries,
                                       from |-> 0, to |-> Len(reg.log) ]
         ELSE \E files \in SeqsUpTo(Files, MaxDocuments) :
                 LET reg == ScanFiles(EmptyRegistry, files)
                 IN  /\ SetRegistry(reg)
                     /\ last_load' = [ kind |-> "scan", files |-> files,
                                       entries |-> << >>,
                                       from |-> 0, to |-> Len(reg.log) ]
    /\ UNCHANGED << doc, parsed >>
    /\ UNCHANGED engineVars

\* registry.load_from_registry_file(filepath) on a registry in use,
\* lines 447-463
LoadFromRegistryFile ==
    /\ reg_log # << >>
    /\ last_load = NoLoad
    /\ \E entries \in SeqsUpTo(IndexEntries, MaxDocuments - Len(reg_log)),
          cats \in IndexCategories :
          LET reg == LoadRegistryFile(Registry, entries, cats)
          IN  /\ SetRegistry(reg)
              /\ last_load' = [ kind |-> "index", files |-> << >>,
                                entries |-> entries,
                                from |-> Len(reg_log), to |-> Len(reg.log) ]
    /\ UNCHANGED << doc, parsed >>
    /\ UNCHANGED engineVars

NextRegistry ==
    \/ RegisterTool
    \/ FromDirectory
    \/ LoadFromRegistryFile

SpecRegistry == InitRegistry /\ [][NextRegistry]_vars

\* registry.get_tool(tool_id), lines 475-477
GetTool(tool_id) ==
    IF \E i \in 1..Len(tools) : tools[i].id = tool_id
    THEN Some(tools[CHOOSE i \in 1..Len(tools) : tools[i].id = tool_id])
    ELSE None

\* registry.find_tools(category, tags, query), lines 486-520, the result in
\* the order of self.tools.values()
Excluded(t, category, tags, query) ==
    \/ TruthyStr(category) /\ t.category # category[1]
    \/ TruthySeq(tags) /\ ~HasAllTags(t, tags[1])
    \/ TruthySeq(query) /\ ~MatchesTrigger(t, query[1])

FindTools(category, tags, query) ==
    SelectSeq(tools, LAMBDA t : ~Excluded(t, category, tags, query))

\* registry.get_categories(), lines 535-537
GetCategories == [ c \in DOMAIN categories |-> Len(categories[c]) ]

----------------------------------------------------------------------------
(* Vocabulary of the claims *)

IsInvoke(ev) == ev \in {"invoke_ok", "invoke_fail"}

\* the outcomes of the callable's invocations, in order
InvokeEvents == SelectSeq(trace, IsInvoke)

Events == { trace[i] : i \in 1..Len(trace) }

\* number of attempts the retry_with_backoff loop has started
Attempts == Count(trace, {"attempt"})

\* the rule _handle_error selected follows strategy s
Selected(s) == handler # 0 /\ error_handlers[handler].strategy = s

\* no rule of the tool matches failure e, by error_code or by error_type
NoRuleMatches(e) ==
    \A i \in 1..Len(error_handlers) :
        /\ error_handlers[i].error_code # Some(e.kind)
        /\ ~IsSubstring(error_handlers[i].error_type, e.msg)

ReturnedCallableResult ==
    /\ outcome.kind = "return"
    /\ outcome.val = func_result
    /\ func_result \in CallableResults

----------------------------------------------------------------------------
(* C1 *)

C1Rule ==
    /\ Selected("retry_with_backoff")
    /\ error_handlers[handler].max_retries = Some(3)
    /\ error_handlers[handler].backoff_ms = Some(<<100, 200>>)

\* C1 as stated: with max_retries=3 and backoff_ms=[100,200], a callable that
\* fails on its first two invocations and succeeds on the third makes execute
\* return the result after exactly two suspensions, 100 ms then 200 ms.
C1_TwoDelaysAfterTwoFailures ==
    ( /\ pc = "done"
      /\ C1Rule
      /\ InvokeEvents = <<"invoke_fail", "invoke_fail", "invoke_ok">> )
    => ( ReturnedCallableResult /\ sleeps = <<100, 200>> )

\* C1 amended: the first attempt of the loop is not delayed, so a callable
\* that fails on its first two invocations and succeeds on the third makes
\* execute return the result after exactly one suspension, of 100 ms; the two
\* suspensions 100 ms then 200 ms are those of a callable that fails on its
\* first three invocations and succeeds on the fourth.
C1_DelaysFollowLoopAttempts ==
    /\ ( /\ pc = "done"
         /\ C1Rule
         /\ InvokeEvents = <<"invoke_fail", "invoke_fail", "invoke_ok">> )
       => ( ReturnedCallableResult /\ sleeps = <<100>> )
    /\ ( /\ pc = "done"
         /\ C1Rule
         /\ InvokeEvents = <<"invoke_fail", "invoke_fail", "invoke_fail", "invoke_ok">> )
       => ( ReturnedCallableResult /\ sleeps = <<100, 200>> )

C1_Witness ==
    /\ pc = "done"
    /\ C1Rule
    /\ opts.handle_errors
    /\ InvokeEvents = <<"invoke_fail", "invoke_fail", "invoke_ok">>
    /\ outcome.kind = "return"
    /\ sleeps = <<100>>

----------------------------------------------------------------------------
(* C2 *)

\* C2: a failure is never swallowed: when execute returns normally the value
\* is the result of an invocation that succeeded, and when no invocation
\* succeeded execute ends by raising an error.
C2_FailureNeverSwallowed ==
    pc = "done" =>
        /\ outcome.kind = "return" =>
              ( "invoke_ok" \in Events /\ ReturnedCallableResult )
        /\ "invoke_ok" \notin Events => outcome.kind = "raise"

----------------------------------------------------------------------------
(* C3 *)

\* C3: when the callable's failure matches no rule, execute with
\* handle_errors raises that same failure, after exactly one invocation of
\* the callable and with no suspension.
C3_UnmatchedFailureReraised ==
    ( pc = "done" /\ error # NoError /\ NoRuleMatches(error) )
    => /\ outcome.kind = "raise"
       /\ outcome.err = error
       /\ error.seq = 1
       /\ InvokeEvents = <<"invoke_fail">>
       /\ sleeps = <<>>
       /\ "sleep" \notin Events

C3_Witness ==
    /\ pc = "done"
    /\ opts.handle_errors
    /\ Len(error_handlers) = 2
    /\ error \in { [kind |-> ce.kind, msg |-> ce.msg, seq |-> 1] : ce \in CallableErrors }
    /\ NoRuleMatches(error)
    /\ outcome.kind = "raise"
    /\ outcome.err = error

----------------------------------------------------------------------------
(* C4 *)

\* C4: with validate_input set and params the schema rejects, execute raises
\* ValidationError before the resolver is called and before the callable is
\* invoked: no resolution, no invocation, and the cache is left as it was.
C4_InvalidParamsRaiseBeforeResolution ==
    ( pc # "idle" /\ opts.validate_input /\ ~params_ok )
    => /\ pc \in {"validate", "done"}
       /\ Events \cap {"load", "resolve_ok", "resolve_fail", "unsupported",
                       "invoke_ok", "invoke_fail"} = {}
       /\ cached_function = cache_at_call
       /\ pc = "done" =>
             /\ outcome.kind = "raise"
             /\ outcome.err.kind = "ValidationError"
             /\ trace = <<"enter", "validate_fail">>

C4_Witness ==
    /\ pc = "done"
    /\ opts.validate_input
    /\ ~params_ok
    /\ outcome.kind = "raise"
    /\ outcome.err.kind = "ValidationError"
    /\ cached_function = NoFunc
    /\ "load" \notin Events

----------------------------------------------------------------------------
(* C5 *)

\* the delay C5 states: wait_seconds, 1 second when unset
C5Delay(h) ==
    (IF h.wait_seconds = None THEN 1 ELSE h.wait_seconds[1]) * 1000

\* C5: with a matching wait_and_retry rule, execute suspends once for
\* wait_seconds (1 second when unset) and retries exactly once: the callable
\* is invoked exactly twice, and the second invocation's outcome is the
\* outcome of execute, with no further rule matching, suspension or retry.
C5_WaitThenExactlyOneRetry ==
    ( pc = "done" /\ Selected("wait_and_retry") )
    => /\ sleeps = << C5Delay(error_handlers[handler]) >>
       /\ Len(InvokeEvents) = 2
       /\ Count(trace, {"scan"}) = 1
       /\ IF InvokeEvents[Len(InvokeEvents)] = "invoke_ok"
          THEN ReturnedCallableResult
          ELSE /\ outcome.kind = "raise"
               /\ outcome.err.seq = 2
               /\ outcome.err.kind \in { ce.kind : ce \in CallableErrors }

----------------------------------------------------------------------------
(* C6 *)

\* the number of attempts C6 states: max_retries, 3 when unset
C6Limit(h) == IF h.max_retries = None THEN 3 ELSE h.max_retries[1]

\* C6: with a matching retry_with_backoff rule whose max_retries is unset or
\* a count (zero or more), the loop makes at most max_retries attempts (3 when
\* unset) and nothing follows a success, so one top-level execute invokes the
\* callable at most 1 + max_retries times.
C6_AtMostMaxRetriesAttempts ==
    ( /\ Selected("retry_with_backoff")
      /\ C6Limit(error_handlers[handler]) >= 0 )
    => /\ Attempts <= C6Limit(error_handlers[handler])
       /\ Len(InvokeEvents) <= 1 + C6Limit(error_handlers[handler])
       /\ "invoke_ok" \in Events => ( pc = "done" /\ ReturnedCallableResult )

----------------------------------------------------------------------------
(* C7 *)

----------------------------------------------------------------------------
(* C8 *)

----------------------------------------------------------------------------
(* C9 *)

\* C9: in every pass through the input-validation step, the passes made by
\* the recovery strategies included, a ValidationError propagates to the
\* caller of the top-level execute at once: it ends the call, and no attempt
\* and no suspension follows it.
C9_ValidationErrorPropagatesAtOnce ==
    \A i \in 1..Len(trace) :
        trace[i] = "validate_fail" =>
            /\ i = Len(trace)
            /\ pc = "done"
            /\ outcome.kind = "raise"
            /\ outcome.err.kind = "ValidationError"

----------------------------------------------------------------------------
(* C10 *)

\* C10: a failure to resolve the endpoint propagates from execute (as
\* ToolExecutionError when the module or the function is not found) and is
\* not subject to recovery: no rule is matched against it, even one that
\* would match it, nothing is slept or retried, and the callable is not
\* invoked.
C10_ResolutionFailureNotRecovered ==
    Events \cap {"resolve_fail", "unsupported"} # {} =>
        /\ pc = "done"
        /\ outcome.kind = "raise"
        /\ outcome.err.kind =
              (IF "resolve_fail" \in Events THEN "ToolExecutionError"
                                            ELSE "NotImplementedError")
        /\ outcome.err.seq = 1
        /\ trace[Len(trace)] \in {"resolve_fail", "unsupported"}
        /\ Events \cap {"scan", "sleep", "attempt", "invoke_ok", "invoke_fail"} = {}
        /\ handler = 0
        /\ sleeps = <<>>
        /\ Passes = 1
        /\ cached_function = NoFunc

C10_Witness ==
    /\ pc = "done"
    /\ opts.handle_errors
    /\ "resolve_fail" \in Events
    /\ outcome.kind = "raise"
    /\ outcome.err.kind = "ToolExecutionError"
    /\ \E i \in 1..Len(error_handlers) :
          IsSubstring(error_handlers[i].error_type, outcome.err.msg)

----------------------------------------------------------------------------
(* C11 *)

\* C11: a tool whose execution descriptor declares a protocol other than
\* function_call never has a callable invoked by execute, whatever its
\* endpoint holds: execute ends by raising and returns no result.
C11_OtherProtocolNeverInvoked ==
    protocol # "function_call" =>
        /\ Events \cap {"invoke_ok", "invoke_fail"} = {}
        /\ pc = "done" => outcome.kind = "raise"

----------------------------------------------------------------------------
(* C12 *)

ResolveEvents == {"resolve_ok", "resolve_fail", "unsupported"}

\* the last event of a non-empty sequence of events, "" of the empty one
LastEvent(t) == IF t = <<>> THEN "" ELSE t[Len(t)]

\* C12: over the execute calls on one Tool, the re-entrant ones included:
\* nothing is resolved before the first execute; the cache is written only
\* while unset and only by a successful resolution, hence at most once; a
\* failed resolution leaves it unset; and once it is set no step resolves
\* again.
C12_CacheWrittenOnceBySuccess ==
    [][ /\ pc = "idle" => ( cached_function = NoFunc /\ trace = <<>> )
        /\ cached_function' # cached_function =>
              /\ cached_function = NoFunc
              /\ cached_function' # NoFunc
              /\ trace' = trace \o <<"load", "resolve_ok">>
        /\ ( trace' # trace /\ LastEvent(trace') = "resolve_ok" ) =>
              ( cached_function = NoFunc /\ cached_function' # NoFunc )
        /\ ( trace' # trace /\ LastEvent(trace') \in {"resolve_fail", "unsupported"} ) =>
              ( cached_function = NoFunc /\ cached_function' = NoFunc )
        /\ cached_function # NoFunc =>
              Count(trace', ResolveEvents) <= Count(trace, ResolveEvents)
      ]_vars

C12_Witness ==
    /\ pc = "done"
    /\ cache_at_call # NoFunc
    /\ cached_function = cache_at_call
    /\ "load" \in Events
    /\ Events \cap ResolveEvents = {}
    /\ Len(InvokeEvents) >= 2

----------------------------------------------------------------------------
(* C17 *)

\* C17: when the first matching rule has strategy prompt_user, fail,
\* alternate_tool or retry, execute raises the original failure itself: the
\* callable was invoked exactly once, in the one pass through execute,
\* nothing was slept, and no result is returned.
C17_NonRecoveringStrategiesReraise ==
    ( \E s \in {"prompt_user", "fail", "alternate_tool", "retry"} : Selected(s) )
    => /\ pc = "done"
       /\ outcome = [kind |-> "raise", val |-> NoResult, err |-> error]
       /\ error.seq = 1
       /\ InvokeEvents = <<"invoke_fail">>
       /\ Passes = 1
       /\ LastEvent(trace) = "scan"
       /\ sleeps = <<>>
       /\ Events \cap {"sleep", "attempt"} = {}

C17_Witness ==
    /\ pc = "done"
    /\ Selected("retry")
    /\ outcome.kind = "raise"
    /\ outcome.err = error
    /\ InvokeEvents = <<"invoke_fail">>

----------------------------------------------------------------------------
(* C20 *)

\* rule i of the tool matches failure e, by error_code or by error_type
RuleMatches(i, e) ==
    \/ error_handlers[i].error_code = Some(e.kind)
    \/ IsSubstring(error_handlers[i].error_type, e.msg)

\* C20: once the rules are scanned, the selected rule is the one of lowest
\* index that matches the failure by error_code or by error_type (none when
\* no rule matches), and the strategy that runs is the selected rule's: the
\* retry loop for retry_with_backoff, one wait and one retry for
\* wait_and_retry, the failure re-raised at once for the others.
C20_FirstMatchingRuleSelected ==
    "scan" \in Events =>
        /\ handler = 0 => NoRuleMatches(error)
        /\ handler # 0 =>
              /\ RuleMatches(handler, error)
              /\ \A j \in 1..(handler - 1) : ~RuleMatches(j, error)
        /\ IF Selected("retry_with_backoff")
           THEN /\ frame # "wait"
                /\ \/ pc = "retry"
                   \/ "attempt" \in Events
                   \/ pc = "done" /\ outcome.kind = "return" /\ outcome.val = NoResult
           ELSE IF Selected("wait_and_retry")
           THEN /\ frame = "wait"
                /\ Len(sleeps) = 1
                /\ Passes = 2
                /\ "attempt" \notin Events
           ELSE /\ pc = "done"
                /\ outcome = [kind |-> "raise", val |-> NoResult, err |-> error]
                /\ Passes = 1
                /\ sleeps = <<>>

C20_Witness ==
    /\ pc = "done"
    /\ Len(error_handlers) = 2
    /\ RuleMatches(1, error)
    /\ RuleMatches(2, error)
    /\ error_handlers[1].strategy = "wait_and_retry"
    /\ error_handlers[2].strategy = "retry_with_backoff"
    /\ handler = 1
    /\ frame = "wait"
    /\ Len(sleeps) = 1


----------------------------------------------------------------------------
(* Parsing and the registry: vocabulary of the claims *)

TopLevelRequired == { "manifest", "capabilities", "execution", "usage_guidance" }

\* the elements of a sequence
Range(s) == { s[i] : i \in 1..Len(s) }

\* the positions of reg_log where a tool of this id was registered
CallsWith(id) == { i \in 1..Len(reg_log) : reg_log[i].id = id }

\* C13: a document that lacks one of the sections manifest, capabilities,
\* execution, usage_guidance makes the constructor raise (a KeyError that
\* names a section the document lacks) and no Tool is built; a document
\* with the four sections and no error_handling is built into a Tool whose
\* rule list is empty.
C13_MissingSectionFailsParsing ==
    parsed # NotParsed =>
        /\ TopLevelRequired \ doc.keys # {} =>
              /\ parsed.status = "raise"
              /\ parsed.tool = NoTool
              /\ parsed.err.kind = "KeyError"
              /\ parsed.err.key \in TopLevelRequired \ doc.keys
        /\ ( TopLevelRequired \subseteq doc.keys /\ "error_handling" \notin doc.keys ) =>
              /\ parsed.status = "ok"
              /\ parsed.tool.id = doc.id
              /\ parsed.tool.error_handlers = << >>

C13_Witness ==
    /\ doc.keys = { "manifest", "capabilities", "execution", "error_handling" }
    /\ doc.error_handling = << GoodRawRule >>
    /\ parsed.status = "raise"
    /\ parsed.err = [kind |-> "KeyError", key |-> "usage_guidance"]

\* C14: when a registry was filled from empty by register calls alone, with
\* tools of pairwise distinct ids that all have category X, find(category=X)
\* returns as many tools as were registered, no tool twice, and the set
\* returned is the set of the tools registered, whatever the order of the
\* calls.
C14_FindByCategoryReturnsTheRegistered ==
    \A X \in Categories :
        ( /\ last_load = NoLoad
          /\ reg_log # << >>
          /\ \A i \in 1..Len(reg_log) : reg_log[i].category = X
          /\ \A i, j \in 1..Len(reg_log) : reg_log[i].id = reg_log[j].id => i = j )
        => /\ Len(FindTools(Some(X), None, None)) = Len(reg_log)
           /\ Range(FindTools(Some(X), None, None)) = Range(reg_log)
           /\ Cardinality(Range(FindTools(Some(X), None, None))) = Len(reg_log)

C14_Witness ==
    /\ last_load = NoLoad
    /\ Len(reg_log) = 3
    /\ \A i \in 1..3 : reg_log[i].category = "x"
    /\ { reg_log[i].id : i \in 1..3 } = ToolIds
    /\ Len(FindTools(Some("x"), None, None)) = 3

\* C15: the registry holds at most one tool per id; get(id) is the tool of
\* the latest register call made with that id, and None when no register
\* call was made with that id.
C15_OneToolPerIdLastWins ==
    /\ \A i, j \in 1..Len(tools) : tools[i].id = tools[j].id => i = j
    /\ \A id \in ToolIds \cup { "zz" } :
          GetTool(id) =
              IF CallsWith(id) = {} THEN None
              ELSE Some(reg_log[CHOOSE i \in CallsWith(id) : \A j \in CallsWith(id) : j <= i])

C15_Witness ==
    /\ Len(reg_log) = 3
    /\ reg_log[1].id = "a" /\ reg_log[2].id = "b" /\ reg_log[3].id = "a"
    /\ reg_log[1] # reg_log[3]
    /\ GetTool("a") = Some(reg_log[3])
    /\ GetTool("c") = None


\* the filters the caller of find_tools passes
CategoryFilters == { None, Some("x"), Some("y"), Some("w"), Some("") }
TagFilters ==
    { None, Some(<< >>), Some(<< "p" >>), Some(<< "q", "p" >>), Some(<< "p", "r" >>) }
QueryFilters ==
    { None, Some(<< >>), Some(<< "x", "a" >>), Some(<< "C", "D" >>), Some(<< "x" >>) }

\* a tool satisfies the filters supplied: None is a filter left out
Satisfies(t, category, tags, query) ==
    /\ category # None => t.category = category[1]
    /\ tags # None => Range(tags[1]) \subseteq Range(t.tags)
    /\ query # None => MatchesTrigger(t, query[1])

\* C16: find(category, tags, query) returns the registered tools that
\* satisfy every filter supplied (category equal, every requested tag
\* among the tool's tags, triggers matching the query), each once, and no
\* other tool.
C16_FindReturnsExactlyTheMatches ==
    \A category \in CategoryFilters, tags \in TagFilters, query \in QueryFilters :
        FindTools(category, tags, query) =
            SelectSeq(tools, LAMBDA t : Satisfies(t, category, tags, query))

\* C18: in a registry filled by register calls alone, get_categories()[c]
\* is the number of tools find(category=c) returns, for every category c
\* it lists, and it lists every category of a registered tool.
C18_CategoryCountsAreToolCounts ==
    last_load = NoLoad =>
        /\ \A c \in DOMAIN GetCategories :
              GetCategories[c] = Len(FindTools(Some(c), None, None))
        /\ \A i \in 1..Len(tools) : tools[i].category \in DOMAIN GetCategories

\* the tools a load has to register: of the entries in order, those whose
\* status is active and whose file is built into a Tool
RECURSIVE ToRegister(_)
ToRegister(entries) ==
    IF entries = << >> THEN << >>
    ELSE ( IF Head(entries).status = "active" /\ FromFile(Head(entries).file).status = "ok"
           THEN << FromFile(Head(entries).file).tool >> ELSE << >> )
         \o ToRegister(Tail(entries))

AsActive(files) == [ i \in 1..Len(files) |-> [status |-> "active", file |-> files[i]] ]

\* the register calls the last load made
LoadedByLastLoad == SubSeq(reg_log, last_load.from + 1, last_load.to)

\* C19: a load from an index makes one register call for each entry that
\* is active and whose document is built into a Tool, a directory scan one
\* for each file that is built into a Tool, in the order of the entries or
\* files and whatever entries or files precede them; the tools loaded are
\* then held by the registry.
C19_LoadSkipsWhatFailsToParse ==
    /\ last_load.kind = "index" => LoadedByLastLoad = ToRegister(last_load.entries)
    /\ last_load.kind = "scan" => LoadedByLastLoad = ToRegister(AsActive(last_load.files))
    /\ \A i \in 1..Len(LoadedByLastLoad) : GetTool(LoadedByLastLoad[i].id) # None

C19_Witness ==
    /\ last_load.kind = "scan"
    /\ Len(last_load.files) = 3
    /\ FromFile(last_load.files[1]).status = "ok"
    /\ FromFile(last_load.files[2]).status = "raise"
    /\ FromFile(last_load.files[3]).status = "ok"
    /\ reg_log = << FromFile(last_load.files[1]).tool, FromFile(last_load.files[3]).tool >>
    /\ Len(tools) = 2


----------------------------------------------------------------------------
(* C21 *)

\* the delays C21 states: backoff_ms, or 1000, 2000, 4000 when it is unset
C21Delays(h) ==
    IF h.backoff_ms = None THEN <<1000, 2000, 4000>> ELSE h.backoff_ms[1]

\* C21: in the retry_with_backoff loop nothing is slept before the first
\* attempt; before attempt k >= 2 (counted from 1) the loop sleeps
\* backoff_ms[min(k-2, len-1)] ms, the last delay serving every attempt
\* beyond the list, and the list is 1000, 2000, 4000 when backoff_ms is
\* unset.  Each sleep comes right before its attempt.
C21_BackoffBeforeEveryAttemptButTheFirst ==
    Selected("retry_with_backoff") =>
        LET B == C21Delays(error_handlers[handler])
        IN  /\ Len(sleeps) = IF Attempts = 0 THEN 0 ELSE Attempts - 1
            /\ \A k \in 2..Attempts :
                  sleeps[k - 1] = B[Min(k - 2, Len(B) - 1) + 1]
            /\ \A i \in 1..Len(trace) :
                  trace[i] = "attempt" =>
                      ( trace[i - 1] = "sleep"
                          <=> \E j \in 1..(i - 1) : trace[j] = "attempt" )

C21_Witness ==
    /\ pc = "done"
    /\ Selected("retry_with_backoff")
    /\ error_handlers[handler].backoff_ms = Some(<<100, 200>>)
    /\ Attempts = 4
    /\ sleeps = <<100, 200, 200>>

----------------------------------------------------------------------------
(* C22 *)

\* C22: when execute is called with handle_errors=False and the callable
\* raises, execute ends at once by raising that failure: the callable was
\* invoked once, the rules were not scanned, no rule was selected and
\* nothing was slept, whatever rules the tool has.
C22_NoRecoveryWhenHandleErrorsIsOff ==
    ( ~opts.handle_errors /\ "invoke_fail" \in Events ) =>
        /\ pc = "done"
        /\ outcome.kind = "raise"
        /\ [kind |-> outcome.err.kind, msg |-> outcome.err.msg] \in CallableErrors
        /\ outcome.err.seq = 1
        /\ InvokeEvents = <<"invoke_fail">>
        /\ LastEvent(trace) = "invoke_fail"
        /\ Passes = 1
        /\ handler = 0
        /\ Events \cap {"scan", "sleep", "attempt"} = {}
        /\ sleeps = <<>>

C22_Witness ==
    /\ pc = "done"
    /\ ~opts.handle_errors
    /\ InvokeEvents = <<"invoke_fail">>
    /\ outcome.kind = "raise"
    /\ Len(error_handlers) = 2
    /\ ~NoRuleMatches(outcome.err)
    /\ error_handlers[1].strategy = "retry_with_backoff"

----------------------------------------------------------------------------
(* C23 *)

\* C23: within one top-level call the rules are scanned at most once and at
\* most one rule is selected: an execute() started by a recovery strategy
\* never reaches _handle_error, its failure is not matched against the
\* rules, and the strategy that runs is the one of the rule selected by
\* the only scan.
C23_RecoveryNeverNested ==
    /\ Count(trace, {"scan"}) <= 1
    /\ frame # "top" => ( pc # "handle" /\ Count(trace, {"scan"}) = 1 /\ handler # 0 )
    /\ "scan" \notin Events => ( handler = 0 /\ frame = "top" /\ sleeps = <<>> )
    /\ frame = "retry" => ( Selected("retry_with_backoff") /\ "attempt" \in Events )
    /\ frame = "wait" => ( Selected("wait_and_retry") /\ "attempt" \notin Events )
    /\ \A i \in 1..Len(trace) :
          trace[i] = "scan" => Count(SubSeq(trace, 1, i), {"enter"}) = 1

C23_Witness ==
    /\ pc = "done"
    /\ frame = "retry"
    /\ Count(trace, {"invoke_fail"}) = 3
    /\ Count(trace, {"scan"}) = 1
    /\ outcome.kind = "raise"
    /\ ~NoRuleMatches(outcome.err)


----------------------------------------------------------------------------
(* C24 *)

\* the ids of the tools of a sequence
IdsOf(ts) == [ i \in 1..Len(ts) |-> ts[i].id ]

\* C24: in a registry filled by register calls alone, the buckets are those
\* of the categories registered, and the bucket of category c lists the ids
\* of the register calls made with a tool of category c, in call order,
\* one entry per call; the id-to-tool mapping holds one tool per id.
C24_BucketsFollowRegisterCalls ==
    last_load = NoLoad =>
        /\ DOMAIN categories = { reg_log[i].category : i \in 1..Len(reg_log) }
        /\ \A c \in DOMAIN categories :
              categories[c] = IdsOf(SelectSeq(reg_log, LAMBDA t : t.category = c))
        /\ Len(tools) = Cardinality({ reg_log[i].id : i \in 1..Len(reg_log) })

C24_Witness ==
    /\ last_load = NoLoad
    /\ Len(reg_log) = 2
    /\ reg_log[1] = reg_log[2]
    /\ reg_log[1].id = "a"
    /\ categories[reg_log[1].category] = << "a", "a" >>
    /\ tools = << reg_log[1] >>

----------------------------------------------------------------------------
(* C25 *)

\* C25: when the top-level call is made with validate_input=False no pass
\* validates the input and execute does not raise ValidationError; when it
\* is made with validate_output=False no pass validates the output.
C25_AttemptsKeepValidationOptions ==
    /\ ~opts.validate_input =>
          /\ Events \cap {"validate_ok", "validate_fail"} = {}
          /\ ( pc = "done" /\ outcome.kind = "raise" )
                => outcome.err.kind # "ValidationError"
    /\ ~opts.validate_output =>
          Events \cap {"output_ok", "output_warn"} = {}

----------------------------------------------------------------------------
(* C26 *)

\* C26: in a registry filled by register calls alone, every id in the
\* bucket of category c is the id of a tool the registry holds and the
\* category of that tool is c.
C26_BucketsListCurrentToolsOfTheCategory ==
    last_load = NoLoad =>
        \A c \in DOMAIN categories :
            \A i \in 1..Len(categories[c]) :
                /\ GetTool(categories[c][i]) # None
                /\ GetTool(categories[c][i])[1].category = c

----------------------------------------------------------------------------
(* C27 *)

\* C27: a selected retry_with_backoff rule with max_retries=0 makes no
\* attempt, and a selected wait_and_retry rule with wait_seconds=0 sleeps
\* 0 seconds.
C27_ExplicitZeroIsNotTheDefault ==
    /\ ( /\ Selected("retry_with_backoff")
         /\ error_handlers[handler].max_retries = Some(0) )
       => Attempts = 0
    /\ ( /\ Selected("wait_and_retry")
         /\ error_handlers[handler].wait_seconds = Some(0) )
       => sleeps = << 0 >>

====
